---- MODULE Spec2Model ----
(***************************************************************************)
(* Model of lambda/autoscale/autoscale.py: the Lambda function that keeps  *)
(* the Route53 record sets of an auto scaling group's hostname in step     *)
(* with the group's instances.                                             *)
(*                                                                         *)
(* State: the hosted zone, the EC2 instances (running, terminating tag),   *)
(* the group's tags, and one record per Lambda invocation holding the      *)
(* position of lambda_handler / process_message and their locals.  Every   *)
(* call of an AWS API is one atomic step; it may fail with a ClientError.  *)
(***************************************************************************)
EXTENDS Integers, Sequences, FiniteSets, TLC

\* ------------------------------------------------------------------ bounds
NumInstances == 2
MaxBatch == 2

\* --------------------------------------------------------------- constants
HOSTNAME_TAG_NAME == "asg:hostname"
TERMINATING_TAG_NAME == "asg:terminating"
TERMINATING_TAG_VALUE == "true"
MODE_TAG_NAME == "asg:hostname_mode"
MODE_SINGLE == <<"s", "i", "n", "g", "l", "e">>
MODE_MULTI == <<"m", "u", "l", "t", "i">>
MODE_DEFAULT == MODE_MULTI
MODES_VALID == {MODE_SINGLE, MODE_MULTI}
ROUTE53_TTL == 60

LAUNCHING == "autoscaling:EC2_INSTANCE_LAUNCHING"
TERMINATING == "autoscaling:EC2_INSTANCE_TERMINATING"
LAUNCH_ERROR == "autoscaling:EC2_INSTANCE_LAUNCH_ERROR"
\* a lifecycle transition the function does not know
UNKNOWN_TRANSITION == "autoscaling:OTHER"
\* a notification without the LifecycleTransition key
NO_TRANSITION == "autoscaling:TEST_NOTIFICATION"

\* ------------------------------------------------------------- environment
Instances == 1 .. NumInstances

\* The addresses EC2 gave an instance: instance n holds the IPv4 address n
\* and the IPv6 address n; of every three instances one is dual stack, one
\* has no IPv6 address and one has no address in IPV4_FIELD.
Ipv4Of(n) == IF n % 3 # 0 THEN {n} ELSE {}
Ipv6Of(n) == IF n % 3 # 2 THEN {n} ELSE {}

\* Strings the code takes apart or compares are sequences of characters.
HostPlain == <<"h">>
HostDotted == <<"h", ".">>
ZoneId == <<"z">>
At == <<"@">>
Tag(key, value) == [Key |-> key, Value |-> value]
WellFormed == HostPlain \o At \o ZoneId
WellFormedDotted == HostDotted \o At \o ZoneId

\* The tags an auto scaling group may carry, as describe_tags lists them
\* (filtered on the two keys the function reads): none, a hostname with
\* and without a mode, an unknown mode, a hostname without and with two
\* separators, a mode without a hostname.
TagSets ==
    { {},
      {Tag(MODE_TAG_NAME, MODE_SINGLE)},
      {Tag(HOSTNAME_TAG_NAME, WellFormedDotted)},
      {Tag(HOSTNAME_TAG_NAME, WellFormed), Tag(MODE_TAG_NAME, MODE_SINGLE)},
      {Tag(HOSTNAME_TAG_NAME, WellFormed), Tag(MODE_TAG_NAME, <<"x">>)},
      {Tag(HOSTNAME_TAG_NAME, HostPlain)},
      {Tag(HOSTNAME_TAG_NAME, WellFormed \o At \o ZoneId)} }

\* dict.get(key, default) on the dict built from the listed tags
TagGet(tagList, key, default) ==
    IF \E t \in tagList : t.Key = key
    THEN (CHOOSE t \in tagList : t.Key = key).Value
    ELSE default

\* ------------------------------------------------------------ HostnameConfig
\* str.split("@", 1): at most one cut, at the first separator
Split(s) ==
    IF \E k \in 1 .. Len(s) : s[k] = "@"
    THEN LET k == CHOOSE j \in 1 .. Len(s) :
                      s[j] = "@" /\ \A m \in 1 .. j - 1 : s[m] # "@"
         IN  <<SubSeq(s, 1, k - 1), SubSeq(s, k + 1, Len(s))>>
    ELSE <<s>>

\* str.rstrip(".")
RECURSIVE RStrip(_)
RStrip(s) ==
    IF Len(s) > 0 /\ s[Len(s)] = "."
    THEN RStrip(SubSeq(s, 1, Len(s) - 1))
    ELSE s

canonical_hostname(config) == RStrip(config.hostname) \o <<".">>

is_single(config) == config.mode = MODE_SINGLE

\* from_asg_name as it would be without the test of the mode
from_asg_name_anymode(asg_name, tagList) ==
    LET hostname_zone == Split(TagGet(tagList, HOSTNAME_TAG_NAME, <<>>))
        mode == TagGet(tagList, MODE_TAG_NAME, MODE_DEFAULT)
    IN  IF Len(hostname_zone) = 0 THEN <<>>
        ELSE IF Len(hostname_zone) # 2 THEN <<>>
        ELSE << [asg_name |-> asg_name,
                 hostname |-> hostname_zone[1],
                 zone_id  |-> hostname_zone[2],
                 mode     |-> mode] >>

\* from_asg_name as it would be without the test of the number of parts
from_asg_name_unchecked(asg_name, tagList) ==
    LET hostname_zone == Split(TagGet(tagList, HOSTNAME_TAG_NAME, <<>>))
        mode == TagGet(tagList, MODE_TAG_NAME, MODE_DEFAULT)
    IN  IF mode \notin MODES_VALID THEN <<>>
        ELSE << [asg_name |-> asg_name,
                 hostname |-> hostname_zone[1],
                 zone_id  |-> IF Len(hostname_zone) = 2 THEN hostname_zone[2] ELSE <<>>,
                 mode     |-> mode] >>

\* Optional[HostnameConfig]: <<>> is None, <<c>> is the config c
from_asg_name(asg_name, tagList) ==
    LET hostname_zone == Split(TagGet(tagList, HOSTNAME_TAG_NAME, <<>>))
        mode == TagGet(tagList, MODE_TAG_NAME, MODE_DEFAULT)
    IN  IF Len(hostname_zone) = 0 THEN <<>>
        ELSE IF Len(hostname_zone) # 2 THEN <<>>
        ELSE IF mode \notin MODES_VALID THEN <<>>
        ELSE << [asg_name |-> asg_name,
                 hostname |-> hostname_zone[1],
                 zone_id  |-> hostname_zone[2],
                 mode     |-> mode] >>

\* ------------------------------------------------------------------ Route53
TypeRank(t) == IF t = "A" THEN 1 ELSE 2

\* Another name of the zone, held by somebody else; it sorts after the
\* group's hostname and never changes.
OtherName == <<"o", ".">>
OtherRRSet == [Name |-> OtherName, Type |-> "A", TTL |-> ROUTE53_TTL, Values |-> {0}]

\* Route53 stores and lists fully qualified names.
ZoneName(name) ==
    IF Len(name) > 0 /\ name[Len(name)] = "." THEN name ELSE name \o <<".">>

CharRank(c) == IF c = "." THEN 0 ELSE IF c = "h" THEN 1 ELSE 2

RECURSIVE NameBefore(_, _)
NameBefore(a, b) ==
    IF Len(b) = 0 THEN FALSE
    ELSE IF Len(a) = 0 THEN TRUE
    ELSE IF CharRank(a[1]) # CharRank(b[1]) THEN CharRank(a[1]) < CharRank(b[1])
    ELSE NameBefore(Tail(a), Tail(b))

RRBefore(r, name, type) ==
    NameBefore(r.Name, name) \/ (r.Name = name /\ TypeRank(r.Type) < TypeRank(type))

\* list_resource_record_sets(StartRecordName, StartRecordType, MaxItems=1):
\* the first record set at or after the start in the zone's order.
ListResourceRecordSets(z, start_name, start_type) ==
    LET cands == {r \in z : ~RRBefore(r, ZoneName(start_name), start_type)}
    IN  {r \in cands : \A q \in cands : q = r \/ RRBefore(r, q.Name, q.Type)}

fetch_values_from_route53(z, config, record_type) ==
    UNION { r.Values : r \in
              { q \in ListResourceRecordSets(z, config.hostname, record_type) :
                    q.Name = canonical_hostname(config) /\ q.Type = record_type } }

\* change_resource_record_sets with one change: the code of the error, or
\* "ok", and the zone afterwards.
ChangeResourceRecordSets(z, name, record_type, ttl, values, operation) ==
    LET fqdn == ZoneName(name)
        same == {r \in z : r.Name = fqdn /\ r.Type = record_type}
        rr   == [Name |-> fqdn, Type |-> record_type, TTL |-> ttl, Values |-> values]
    IN  IF values = {}
        THEN [code |-> "InvalidInput", zone |-> z]
        ELSE IF operation = "UPSERT"
        THEN [code |-> "ok", zone |-> (z \ same) \cup {rr}]
        ELSE IF rr \in z
        THEN [code |-> "ok", zone |-> z \ {rr}]
        ELSE [code |-> "InvalidChangeBatch", zone |-> z]

\* update_record: one change_resource_record_sets call.  fault: the call
\* fails for a reason of its own (throttling, access, network).
update_record(z, config, values, operation, record_type, fault) ==
    LET r == IF fault
             THEN [code |-> "ServiceFailure", zone |-> z]
             ELSE ChangeResourceRecordSets(z, config.hostname, record_type,
                                           ROUTE53_TTL, values, operation)
    IN  [code  |-> r.code,
         zone  |-> r.zone,
         calls |-> << [Action |-> operation, Type |-> record_type, Values |-> values] >>,
         caught |-> FALSE]

NoCall(z) == [code |-> "ok", zone |-> z, calls |-> <<>>, caught |-> FALSE]

\* change_records as it would be if an UPSERT merged into the old set
change_records_merging(z, config, old, new, record_type, fault) ==
    IF old = new THEN NoCall(z)
    ELSE IF new # {}
         THEN update_record(z, config, new \cup old, "UPSERT", record_type, fault)
    ELSE update_record(z, config, old, "DELETE", record_type, fault)

\* change_records as it would be without the test old == new
change_records_always(z, config, old, new, record_type, fault) ==
    IF new # {} THEN update_record(z, config, new, "UPSERT", record_type, fault)
    ELSE IF old # {} THEN update_record(z, config, old, "DELETE", record_type, fault)
    ELSE NoCall(z)

\* change_records as it would be without its first test, old == new
change_records_untested(z, config, old, new, record_type, fault) ==
    IF new # {} THEN update_record(z, config, new, "UPSERT", record_type, fault)
    ELSE update_record(z, config, old, "DELETE", record_type, fault)

\* change_records as it would be if it removed the old set first
change_records_clearing(z, config, old, new, record_type, fault) ==
    IF old = new THEN NoCall(z)
    ELSE IF old # {} THEN update_record(z, config, old, "DELETE", record_type, fault)
    ELSE update_record(z, config, new, "UPSERT", record_type, fault)

\* process_message.change_records
change_records(z, config, old, new, record_type, fault) ==
    IF old = new THEN NoCall(z)
    ELSE IF new # {} THEN update_record(z, config, new, "UPSERT", record_type, fault)
    ELSE update_record(z, config, old, "DELETE", record_type, fault)

\* single_launch as it would be without the test of new
single_launch_unguarded(z, config, old, new, record_type, fault) ==
    change_records(z, config, old, new, record_type, fault)

\* Single mode, one family of a launching instance
single_launch(z, config, old, new, record_type, fault) ==
    IF new # {} THEN change_records(z, config, old, new, record_type, fault)
    ELSE NoCall(z)

\* single_terminate as it would be without the except clause
single_terminate_uncaught(z, config, old, record_type, fault) ==
    IF old # {} THEN change_records(z, config, old, {}, record_type, fault)
    ELSE NoCall(z)

\* Single mode, one family of a terminating instance: the ClientError
\* InvalidChangeBatch is caught, every other error is raised again
single_terminate(z, config, old, record_type, fault) ==
    IF old # {}
    THEN LET r == change_records(z, config, old, {}, record_type, fault)
         IN  IF r.code = "InvalidChangeBatch"
             THEN [r EXCEPT !.code = "ok", !.caught = TRUE]
             ELSE r
    ELSE NoCall(z)

\* Multi mode, one family
multi_change(z, config, old, new, record_type, fault) ==
    change_records(z, config, old, new, record_type, fault)

\* ---------------------------------------------------------------------- EC2
\* fetch_instance_ips as it would be without the test of ignore_ids
fetch_instance_ips_unignoring(run, marked, ignore_ids) ==
    LET seen == {x \in run : x \notin marked}
    IN  [ipv4s |-> UNION {Ipv4Of(x) : x \in seen},
         ipv6s |-> UNION {Ipv6Of(x) : x \in seen}]

\* fetch_instance_ips as it would be without the test of the instance's tags
fetch_instance_ips_untested(run, marked, ignore_ids) ==
    LET seen == {x \in run : x \notin ignore_ids}
    IN  [ipv4s |-> UNION {Ipv4Of(x) : x \in seen},
         ipv6s |-> UNION {Ipv6Of(x) : x \in seen}]

\* describe_instances filtered on the group and on state "running":
\* run is the set of running instances, marked the instances whose
\* asg:terminating = true tag the response shows.
fetch_instance_ips(run, marked, ignore_ids) ==
    LET seen == {x \in run : x \notin ignore_ids /\ x \notin marked}
    IN  [ipv4s |-> UNION {Ipv4Of(x) : x \in seen},
         ipv6s |-> UNION {Ipv6Of(x) : x \in seen}]

\* describe_instances by id: a running instance shows its addresses.
fetch_ip_from_ec2(run, instance_id) ==
    [ipv4s |-> IF instance_id \in run THEN Ipv4Of(instance_id) ELSE {},
     ipv6s |-> IF instance_id \in run THEN Ipv6Of(instance_id) ELSE {}]

\* -------------------------------------------------------------------- state
VARIABLES
    zone,       \* the record sets of the hosted zone
    running,    \* the instances of the group in state "running"
    tagged,     \* the instances create_tags has marked asg:terminating = true
    visible,    \* the marked instances whose tag describe_instances shows
    asgTags,    \* the tags of the auto scaling group
    topic,      \* the messages the SNS topic may deliver
    inv         \* the Lambda invocations: position and locals of each

vars == <<zone, running, tagged, visible, asgTags, topic, inv>>

AsgName == "asg"

\* The messages SNS may deliver: those of a lifecycle hook, which name the
\* hook and the group, and a notification that is not of a lifecycle hook.
\* LifecycleHookName: the message has that key (all have AutoScalingGroupName).
Messages ==
    [LifecycleTransition : {LAUNCHING, TERMINATING, LAUNCH_ERROR, UNKNOWN_TRANSITION},
     EC2InstanceId : Instances,
     LifecycleHookName : {TRUE}]
    \cup {[LifecycleTransition |-> NO_TRANSITION, EC2InstanceId |-> 1,
           LifecycleHookName |-> FALSE]}

NoMessage == [LifecycleTransition |-> "", EC2InstanceId |-> 0, LifecycleHookName |-> FALSE]

launch_ids(message) ==
    IF message.LifecycleTransition = LAUNCHING THEN {message.EC2InstanceId} ELSE {}

terminate_ids(message) ==
    IF message.LifecycleTransition \in {TERMINATING, LAUNCH_ERROR}
    THEN {message.EC2InstanceId} ELSE {}

\* A fresh invocation of lambda_handler with a batch of n records.
\*   records, done : the size of event["Records"], the records taken so far
\*   message ... ipv6s : the locals of process_message
\*   path       : how process_message went for the record at hand
\*   calls      : the change_resource_record_sets calls made for that record
\*   caught     : the InvalidChangeBatch errors caught for that record
\*   completion : how complete_lifecycle_action went for the last record:
\*                "" (not called), "ok", or the error it failed with
\*   error      : the code of the exception that left lambda_handler
\*   lagged     : fetch_instance_ips ran for the last record while a tag
\*                written by create_tags did not show yet
\*   prev       : what the previous record left, when process_message ran
\*                Single or Multi mode to its end
Invocation(n) ==
    [pc |-> "loop", records |-> n, done |-> 0,
     message |-> NoMessage, config |-> <<>>,
     old_ipv4s |-> {}, old_ipv6s |-> {}, ipv4s |-> {}, ipv6s |-> {},
     path |-> "", calls |-> <<>>, caught |-> 0, completion |-> "",
     error |-> "", lagged |-> FALSE, prev |-> <<>>]

AllIpv4 == UNION {Ipv4Of(x) : x \in Instances}
AllIpv6 == UNION {Ipv6Of(x) : x \in Instances}

\* A record set of the hostname, as earlier runs of the function left it:
\* written by update_record, for whatever instances the group had then.
RRSets(record_type, addresses) ==
    [Name : {HostDotted}, Type : {record_type}, TTL : {ROUTE53_TTL},
     Values : SUBSET addresses \ {{}}]

Zones ==
    { {OtherRRSet} \cup a \cup b :
        a \in {{}} \cup {{r} : r \in RRSets("A", AllIpv4)},
        b \in {{}} \cup {{r} : r \in RRSets("AAAA", AllIpv6)} }

InitWorld ==
    /\ zone \in Zones
    /\ running \in SUBSET Instances
    /\ tagged = {}
    /\ visible = {}

\* One invocation working through a batch of any messages, for a group
\* with any tags.
Init ==
    /\ InitWorld
    /\ asgTags \in TagSets
    /\ topic = Messages
    /\ \E n \in 1 .. MaxBatch : inv = [i \in {1} |-> Invocation(n)]

\* Two invocations, one record each, running at the same time; the set of
\* running instances does not change while they run.
\* The group is a Multi mode group and the messages are those of its
\* lifecycle hooks for launching and terminating instances.
RaceMessages ==
    {m \in Messages : /\ m.LifecycleTransition \in {LAUNCHING, TERMINATING}
                      /\ m.LifecycleHookName}

InitRace ==
    /\ InitWorld
    /\ asgTags \in {t \in TagSets : /\ from_asg_name(AsgName, t) # <<>>
                                   /\ ~is_single(from_asg_name(AsgName, t)[1])
                                   /\ from_asg_name(AsgName, t)[1].zone_id = ZoneId}
    /\ topic = RaceMessages
    /\ inv = [i \in {1, 2} |-> Invocation(1)]

\* ------------------------------------------------------------------ actions
Set(i, v) == inv' = [inv EXCEPT ![i] = v]

\* A propagated exception ends process_message and lambda_handler at once.
Raise(v, code) ==
    [v EXCEPT !.pc = "raised", !.path = "raised", !.error = code, !.config = <<>>,
              !.old_ipv4s = {}, !.old_ipv6s = {}, !.ipv4s = {}, !.ipv6s = {},
              !.lagged = FALSE, !.prev = <<>>]

\* process_message returns to lambda_handler.
Return(v, path) ==
    [v EXCEPT !.pc = "complete", !.path = path, !.config = <<>>,
              !.old_ipv4s = {}, !.old_ipv6s = {}]

\* lambda_handler: for record in event["Records"]
NextRecord(i) ==
    /\ inv[i].pc = "loop"
    /\ inv[i].done < inv[i].records
    /\ \E m \in topic :
          Set(i, [inv[i] EXCEPT !.pc = "process_message", !.done = @ + 1,
                                !.message = m, !.completion = "",
                                !.lagged = FALSE])
    /\ UNCHANGED <<zone, running, tagged, visible, asgTags, topic>>

\* lambda_handler: the loop is over
HandlerReturn(i) ==
    /\ inv[i].pc = "loop"
    /\ inv[i].done = inv[i].records
    /\ Set(i, [inv[i] EXCEPT !.pc = "done", !.prev = <<>>])
    /\ UNCHANGED <<zone, running, tagged, visible, asgTags, topic>>

\* Classify as it would be if every other transition counted as terminating
Classify_lenient(i) ==
    /\ inv[i].pc = "process_message"
    /\ LET v == inv[i]
           t == v.message.LifecycleTransition
       IN  Set(i, IF t = NO_TRANSITION THEN Return(v, "skipped")
                  ELSE IF t = LAUNCHING THEN [v EXCEPT !.pc = "from_asg_name"]
                  ELSE [v EXCEPT !.pc = "set_terminating_tag"])
    /\ UNCHANGED <<zone, running, tagged, visible, asgTags, topic>>

\* Classify as it would be if the instance were not tagged first
Classify_unmarked(i) ==
    /\ inv[i].pc = "process_message"
    /\ LET v == inv[i]
           t == v.message.LifecycleTransition
       IN  Set(i, IF t = NO_TRANSITION THEN Return(v, "skipped")
                  ELSE IF t \in {LAUNCHING, TERMINATING, LAUNCH_ERROR}
                       THEN [v EXCEPT !.pc = "from_asg_name"]
                  ELSE Return(v, "unknown"))
    /\ UNCHANGED <<zone, running, tagged, visible, asgTags, topic>>

\* process_message: the transition decides launch_ids and terminate_ids
Classify(i) ==
    /\ inv[i].pc = "process_message"
    /\ LET v == inv[i]
           t == v.message.LifecycleTransition
       IN  Set(i, IF t = NO_TRANSITION THEN Return(v, "skipped")
                  ELSE IF t = LAUNCHING THEN [v EXCEPT !.pc = "from_asg_name"]
                  ELSE IF t \in {TERMINATING, LAUNCH_ERROR}
                       THEN [v EXCEPT !.pc = "set_terminating_tag"]
                  ELSE Return(v, "unknown"))
    /\ UNCHANGED <<zone, running, tagged, visible, asgTags, topic>>

\* process_message: set_terminating_tag for the terminating instance
SetTerminatingTag(i) ==
    /\ inv[i].pc = "set_terminating_tag"
    /\ \E fault \in BOOLEAN :
          IF fault
          THEN /\ Set(i, Raise(inv[i], "ServiceFailure"))
               /\ UNCHANGED tagged
          ELSE /\ tagged' = tagged \cup terminate_ids(inv[i].message)
               /\ Set(i, [inv[i] EXCEPT !.pc = "from_asg_name"])
    /\ UNCHANGED <<zone, running, visible, asgTags, topic>>

\* process_message: config = HostnameConfig.from_asg_name(asg_name)
FromAsgName(i) ==
    /\ inv[i].pc = "from_asg_name"
    /\ \E fault \in BOOLEAN :
          LET config == from_asg_name(AsgName, asgTags)
          IN  Set(i, IF fault THEN Raise(inv[i], "ServiceFailure")
                     ELSE IF config = <<>> THEN Return(inv[i], "no_config")
                     ELSE [inv[i] EXCEPT !.pc = "fetch_A", !.config = config])
    /\ UNCHANGED <<zone, running, tagged, visible, asgTags, topic>>

\* process_message: old_ipv4s = fetch_values_from_route53(config)
FetchOldA(i) ==
    /\ inv[i].pc = "fetch_A"
    /\ \E fault \in BOOLEAN :
          LET config == inv[i].config[1]
          IN  Set(i, IF fault THEN Raise(inv[i], "ServiceFailure")
                     ELSE IF config.zone_id # ZoneId
                          THEN Raise(inv[i], "NoSuchHostedZone")
                     ELSE [inv[i] EXCEPT
                             !.pc = "fetch_AAAA",
                             !.old_ipv4s = fetch_values_from_route53(zone, config, "A")])
    /\ UNCHANGED <<zone, running, tagged, visible, asgTags, topic>>

\* process_message: old_ipv6s = fetch_values_from_route53(config, "AAAA")
FetchOldAAAA(i) ==
    /\ inv[i].pc = "fetch_AAAA"
    /\ \E fault \in BOOLEAN :
          LET config == inv[i].config[1]
          IN  Set(i, IF fault THEN Raise(inv[i], "ServiceFailure")
                     ELSE IF config.zone_id # ZoneId
                          THEN Raise(inv[i], "NoSuchHostedZone")
                     ELSE [inv[i] EXCEPT
                             !.pc = "fetch_ips",
                             !.old_ipv6s = fetch_values_from_route53(zone, config, "AAAA")])
    /\ UNCHANGED <<zone, running, tagged, visible, asgTags, topic>>

\* process_message: fetch_ip_from_ec2 of the instance of the message
\* (Single mode) or fetch_instance_ips of the group (Multi mode)
FetchIps(i) ==
    /\ inv[i].pc = "fetch_ips"
    /\ \E fault \in BOOLEAN :
          LET v == inv[i]
              ips == IF is_single(v.config[1])
                     THEN fetch_ip_from_ec2(running, v.message.EC2InstanceId)
                     ELSE fetch_instance_ips(running, visible, terminate_ids(v.message))
          IN  Set(i, IF fault THEN Raise(v, "ServiceFailure")
                     ELSE [v EXCEPT !.pc = "change_A",
                                    !.ipv4s = ips.ipv4s, !.ipv6s = ips.ipv6s,
                                    !.lagged = /\ ~is_single(v.config[1])
                                               /\ tagged # visible])
    /\ UNCHANGED <<zone, running, tagged, visible, asgTags, topic>>

\* change_family as it would be if Single mode went the Multi mode way
change_family_unmoded(z, v, old, new, record_type, fault) ==
    multi_change(z, v.config[1], old, new, record_type, fault)

\* process_message: what it does for one family once the addresses are known
change_family(z, v, old, new, record_type, fault) ==
    IF is_single(v.config[1])
    THEN IF launch_ids(v.message) # {}
         THEN single_launch(z, v.config[1], old, new, record_type, fault)
         ELSE single_terminate(z, v.config[1], new, record_type, fault)
    ELSE multi_change(z, v.config[1], old, new, record_type, fault)

After(v, r) ==
    [v EXCEPT !.calls = @ \o r.calls, !.caught = @ + (IF r.caught THEN 1 ELSE 0)]

\* process_message: the A records
ChangeA(i) ==
    /\ inv[i].pc = "change_A"
    /\ \E fault \in BOOLEAN :
          LET v == inv[i]
              r == change_family(zone, v, v.old_ipv4s, v.ipv4s, "A", fault)
          IN  /\ zone' = r.zone
              /\ Set(i, IF r.code # "ok" THEN Raise(After(v, r), r.code)
                        ELSE [After(v, r) EXCEPT !.pc = "change_AAAA"])
    /\ UNCHANGED <<running, tagged, visible, asgTags, topic>>

\* process_message: the AAAA records, then it returns
ChangeAAAA(i) ==
    /\ inv[i].pc = "change_AAAA"
    /\ \E fault \in BOOLEAN :
          LET v == inv[i]
              r == change_family(zone, v, v.old_ipv6s, v.ipv6s, "AAAA", fault)
          IN  /\ zone' = r.zone
              /\ Set(i, IF r.code # "ok" THEN Raise(After(v, r), r.code)
                        ELSE Return(After(v, r),
                                    IF is_single(v.config[1]) THEN "single" ELSE "multi"))
    /\ UNCHANGED <<running, tagged, visible, asgTags, topic>>

\* lambda_handler after process_record: complete_lifecycle_action when the
\* message has LifecycleHookName and AutoScalingGroupName; a ClientError of
\* that call is logged and ignored
Finished_record(v) ==
    [v EXCEPT !.pc = "loop", !.path = "", !.calls = <<>>, !.caught = 0,
              !.message = [NoMessage EXCEPT !.LifecycleHookName =
                               v.message.LifecycleHookName],
              !.ipv4s = {}, !.ipv6s = {},
              !.prev = IF v.path \in {"single", "multi"}
                       THEN << [path |-> v.path, ipv4s |-> v.ipv4s,
                                ipv6s |-> v.ipv6s, zone |-> zone] >>
                       ELSE <<>>]

\* Finish as it would be if the ClientError were raised again
Finish_raising(v, result) ==
    IF ~v.message.LifecycleHookName THEN Finished_record(v)
    ELSE IF result = "ok" THEN [Finished_record(v) EXCEPT !.completion = result]
    ELSE [Raise(v, result) EXCEPT !.completion = result, !.calls = <<>>,
                                  !.caught = 0]

Finish(v, result) ==
    IF ~v.message.LifecycleHookName THEN Finished_record(v)
    ELSE IF result \in {"ok", "ClientError"}
         THEN [Finished_record(v) EXCEPT !.completion = result]
    ELSE [Raise(v, result) EXCEPT !.completion = result, !.calls = <<>>,
                                  !.caught = 0]

CompleteLifecycleAction(i) ==
    /\ inv[i].pc = "complete"
    /\ \E result \in {"ok", "ClientError", "ConnectionError"} :
          Set(i, Finish(inv[i], result))
    /\ UNCHANGED <<zone, running, tagged, visible, asgTags, topic>>

\* EC2: the tag written by create_tags shows up in describe_instances
PropagateTag(x) ==
    /\ x \in tagged \ visible
    /\ visible' = visible \cup {x}
    /\ UNCHANGED <<zone, running, tagged, asgTags, topic, inv>>

\* EC2: an instance of the group reaches or leaves the state "running".
\* Only fetch_ip_from_ec2 and fetch_instance_ips read that state, once per
\* record: a change before that read acts as one before the record, a change
\* after it as one after the record, so changes are taken between records.
Between == \A i \in DOMAIN inv : inv[i].pc = "loop"

InstanceRuns(x) ==
    /\ Between
    /\ x \notin running
    /\ running' = running \cup {x}
    /\ UNCHANGED <<zone, tagged, visible, asgTags, topic, inv>>

InstanceStops(x) ==
    /\ Between
    /\ x \in running
    /\ running' = running \ {x}
    /\ UNCHANGED <<zone, tagged, visible, asgTags, topic, inv>>

Next ==
    \/ \E i \in DOMAIN inv : NextRecord(i)
    \/ \E i \in DOMAIN inv : HandlerReturn(i)
    \/ \E i \in DOMAIN inv : Classify(i)
    \/ \E i \in DOMAIN inv : SetTerminatingTag(i)
    \/ \E i \in DOMAIN inv : FromAsgName(i)
    \/ \E i \in DOMAIN inv : FetchOldA(i)
    \/ \E i \in DOMAIN inv : FetchOldAAAA(i)
    \/ \E i \in DOMAIN inv : FetchIps(i)
    \/ \E i \in DOMAIN inv : ChangeA(i)
    \/ \E i \in DOMAIN inv : ChangeAAAA(i)
    \/ \E i \in DOMAIN inv : CompleteLifecycleAction(i)
    \/ \E x \in Instances : PropagateTag(x)
    \/ \E x \in Instances : InstanceRuns(x)
    \/ \E x \in Instances : InstanceStops(x)

NextRace ==
    \/ \E i \in DOMAIN inv : NextRecord(i)
    \/ \E i \in DOMAIN inv : HandlerReturn(i)
    \/ \E i \in DOMAIN inv : Classify(i)
    \/ \E i \in DOMAIN inv : SetTerminatingTag(i)
    \/ \E i \in DOMAIN inv : FromAsgName(i)
    \/ \E i \in DOMAIN inv : FetchOldA(i)
    \/ \E i \in DOMAIN inv : FetchOldAAAA(i)
    \/ \E i \in DOMAIN inv : FetchIps(i)
    \/ \E i \in DOMAIN inv : ChangeA(i)
    \/ \E i \in DOMAIN inv : ChangeAAAA(i)
    \/ \E i \in DOMAIN inv : CompleteLifecycleAction(i)
    \/ \E x \in Instances : PropagateTag(x)

Spec == Init /\ [][Next]_vars

\* change_records on its own: any old and new set of a family, any record
\* sets of the hostname in the zone, for a Multi mode config.
PlanConfig == from_asg_name(AsgName, {Tag(HOSTNAME_TAG_NAME, WellFormedDotted)})[1]

Plan(old, new, record_type) ==
    [pc |-> "change_records", old |-> old, new |-> new,
     record_type |-> record_type, calls |-> <<>>, code |-> ""]

InitPlan ==
    /\ zone \in Zones
    /\ running = {}
    /\ tagged = {}
    /\ visible = {}
    /\ asgTags = {Tag(HOSTNAME_TAG_NAME, WellFormedDotted)}
    /\ topic = {}
    /\ \/ \E old \in SUBSET AllIpv4 : \E new \in SUBSET AllIpv4 :
             inv = [i \in {1} |-> Plan(old, new, "A")]
       \/ \E old \in SUBSET AllIpv6 : \E new \in SUBSET AllIpv6 :
             inv = [i \in {1} |-> Plan(old, new, "AAAA")]

PlanChange(i) ==
    /\ inv[i].pc = "change_records"
    /\ \E fault \in BOOLEAN :
          LET v == inv[i]
              r == change_records(zone, PlanConfig, v.old, v.new, v.record_type, fault)
          IN  /\ zone' = r.zone
              /\ Set(i, [v EXCEPT !.pc = "returned", !.calls = r.calls,
                                  !.code = r.code])
    /\ UNCHANGED <<running, tagged, visible, asgTags, topic>>

NextPlan == \E i \in DOMAIN inv : PlanChange(i)

SpecPlan == InitPlan /\ [][NextPlan]_vars

SpecRace == InitRace /\ [][NextRace]_vars

\* ------------------------------------------------------------------- claims
\* The values of the hostname's record set of one type.
DirectoryValues(z, record_type) ==
    UNION {r.Values : r \in {q \in z : q.Name = HostDotted /\ q.Type = record_type}}

Finished(v, path) == v.pc = "complete" /\ v.path = path

\* C1: when process_message has run a launching or terminating message of
\* a Multi mode group to its end, the hostname's A record set is exactly
\* the IPv4 set fetch_instance_ips returned and its AAAA record set exactly
\* the IPv6 set: nothing of the old record set is left, and an empty set
\* leaves no record.
C1_SelfHealing ==
    \A i \in DOMAIN inv :
        Finished(inv[i], "multi") =>
            /\ DirectoryValues(zone, "A") = inv[i].ipv4s
            /\ DirectoryValues(zone, "AAAA") = inv[i].ipv6s

\* C1 happens: a Multi mode run that replaced the A records and deleted
\* the AAAA records.
C1_Witness ==
    \E i \in DOMAIN inv :
        /\ Finished(inv[i], "multi")
        /\ Len(inv[i].calls) = 2
        /\ inv[i].calls[1].Action = "UPSERT"
        /\ inv[i].calls[2].Action = "DELETE"
        /\ inv[i].ipv6s = {}

SameSnapshot(v) ==
    /\ Finished(v, "multi")
    /\ v.prev # <<>>
    /\ v.prev[1].path = "multi"
    /\ v.prev[1].ipv4s = v.ipv4s
    /\ v.prev[1].ipv6s = v.ipv6s

\* C2: when two records in a row of a Multi mode group see the same
\* members, the second one makes no change_resource_record_sets call and
\* the zone is as the first one left it.
C2_Idempotent ==
    \A i \in DOMAIN inv :
        SameSnapshot(inv[i]) => inv[i].calls = <<>> /\ zone = inv[i].prev[1].zone

\* C2 happens: a second run over the same, non-empty membership.
C2_Witness ==
    \E i \in DOMAIN inv :
        SameSnapshot(inv[i]) /\ inv[i].ipv4s # {} /\ inv[i].ipv6s # {}

LiveIpv4 == UNION {Ipv4Of(x) : x \in running \ tagged}
LiveIpv6 == UNION {Ipv6Of(x) : x \in running \ tagged}
AllDone == \A i \in DOMAIN inv : inv[i].pc = "done"
NoLag == \A i \in DOMAIN inv : ~inv[i].lagged

\* C3: once two invocations for the same Multi mode group, whose steps
\* interleave in any way, have both finished, the hostname's record sets
\* equal the addresses of the running instances without the terminating
\* tag (stated for the runs in which every tag showed to describe_instances
\* as soon as it was written).
C3_NoLostRecords ==
    (AllDone /\ NoLag) =>
        /\ DirectoryValues(zone, "A") = LiveIpv4
        /\ DirectoryValues(zone, "AAAA") = LiveIpv6

\* C4: once the terminating message of an instance and every invocation
\* in flight with it have been processed, the hostname's record sets hold
\* no address of that instance (stated for the runs in which every tag
\* showed to describe_instances as soon as it was written).
C4_NoStaleEntry ==
    (AllDone /\ NoLag) =>
        \A x \in tagged :
            /\ Ipv4Of(x) \cap DirectoryValues(zone, "A") = {}
            /\ Ipv6Of(x) \cap DirectoryValues(zone, "AAAA") = {}

IsMulti(v) == v.config # <<>> /\ ~is_single(v.config[1])
SingleLaunching(v) ==
    v.config # <<>> /\ is_single(v.config[1]) /\ launch_ids(v.message) # {}
SingleTerminating(v) ==
    v.config # <<>> /\ is_single(v.config[1]) /\ terminate_ids(v.message) # {}

\* C5: the sets fetch_instance_ips returns hold no address of an instance
\* whose terminating tag describe_instances shows at that time, whether
\* or not the instance is running and in ignore_ids.
C5_Exclusion ==
    [][\A i \in DOMAIN inv :
          (IsMulti(inv[i]) /\ inv[i].pc = "fetch_ips" /\ inv'[i].pc = "change_A") =>
              \A x \in visible :
                  /\ Ipv4Of(x) \cap inv'[i].ipv4s = {}
                  /\ Ipv6Of(x) \cap inv'[i].ipv6s = {}]_vars

\* C5 happens: the members were fetched for a launching message while a
\* running instance, not in ignore_ids, showed the tag.
C5_Witness ==
    \E i \in DOMAIN inv : \E x \in visible \cap running :
        /\ IsMulti(inv[i])
        /\ inv[i].pc = "change_A"
        /\ launch_ids(inv[i].message) # {}
        /\ Ipv4Of(x) # {}
        /\ inv[i].ipv4s # {}

\* C6: in Single mode the DELETE for a terminating instance, met by a
\* record set that is not that instance's own, leaves the zone as it is,
\* and its InvalidChangeBatch error is caught: process_message goes on.
C6_SafeSupersession ==
    [][\A i \in DOMAIN inv :
          /\ ( /\ SingleTerminating(inv[i])
               /\ inv[i].pc = "change_A"
               /\ inv[i].ipv4s # {}
               /\ DirectoryValues(zone, "A") # inv[i].ipv4s
               /\ inv'[i] # inv[i] )
             => /\ zone' = zone
                /\ inv'[i].error # "InvalidChangeBatch"
                /\ \/ inv'[i].error = "ServiceFailure"
                   \/ /\ inv'[i].pc = "change_AAAA"
                      /\ inv'[i].caught = inv[i].caught + 1
          /\ ( /\ SingleTerminating(inv[i])
               /\ inv[i].pc = "change_AAAA"
               /\ inv[i].ipv6s # {}
               /\ DirectoryValues(zone, "AAAA") # inv[i].ipv6s
               /\ inv'[i] # inv[i] )
             => /\ zone' = zone
                /\ inv'[i].error # "InvalidChangeBatch"
                /\ \/ inv'[i].error = "ServiceFailure"
                   \/ /\ inv'[i].pc = "complete"
                      /\ inv'[i].caught = inv[i].caught + 1]_vars

\* C6 happens: the record before launched an instance and upserted its
\* address; the DELETE for the terminating instance then met that record
\* set and was caught.
C6_Witness ==
    \E i \in DOMAIN inv :
        /\ SingleTerminating(inv[i])
        /\ inv[i].pc = "change_AAAA"
        /\ inv[i].caught = 1
        /\ inv[i].prev # <<>>
        /\ inv[i].prev[1].path = "single"
        /\ inv[i].prev[1].ipv4s # {}
        /\ inv[i].prev[1].ipv4s # inv[i].ipv4s
        /\ DirectoryValues(inv[i].prev[1].zone, "A") = inv[i].prev[1].ipv4s
        /\ DirectoryValues(zone, "A") = inv[i].prev[1].ipv4s

RRSetsOf(z, record_type) == {q \in z : q.Name = HostDotted /\ q.Type = record_type}
CallsOf(v, record_type) == {k \in 1 .. Len(v.calls) : v.calls[k].Type = record_type}

\* C7: in Single mode a launching instance without an IPv6 address makes
\* no call for the AAAA records and leaves them as they are; the same for
\* the A records of an instance without an IPv4 address.
C7_NonDestructiveLaunch ==
    [][\A i \in DOMAIN inv :
          (SingleLaunching(inv[i]) /\ inv[i].pc \in {"change_A", "change_AAAA"}) =>
              /\ inv[i].ipv6s = {} =>
                    /\ RRSetsOf(zone', "AAAA") = RRSetsOf(zone, "AAAA")
                    /\ CallsOf(inv'[i], "AAAA") = {}
              /\ inv[i].ipv4s = {} =>
                    /\ RRSetsOf(zone', "A") = RRSetsOf(zone, "A")
                    /\ CallsOf(inv'[i], "A") = {}]_vars

\* C7 happens: a launch with an IPv4 address only upserted the A records
\* and the AAAA records of the hostname are still there.
C7_Witness ==
    \E i \in DOMAIN inv :
        /\ Finished(inv[i], "single")
        /\ launch_ids(inv[i].message) # {}
        /\ inv[i].ipv4s # {}
        /\ inv[i].ipv6s = {}
        /\ Len(inv[i].calls) = 1
        /\ inv[i].calls[1].Action = "UPSERT"
        /\ DirectoryValues(zone, "AAAA") # {}

\* C8: for every record with the lifecycle keys lambda_handler calls
\* complete_lifecycle_action, also when process_message failed.
C8_CompletionAlways ==
    \A i \in DOMAIN inv :
        (inv[i].pc \in {"loop", "done", "raised"} /\ inv[i].message.LifecycleHookName)
            => inv[i].completion # ""

\* C9: when an exception ends process_message for one record,
\* lambda_handler still takes the records after it.
C9_BatchIsolation ==
    \A i \in DOMAIN inv :
        (inv[i].pc = "raised" /\ inv[i].completion = "") =>
            inv[i].done = inv[i].records

\* C10: a ClientError of complete_lifecycle_action does not leave
\* lambda_handler: the loop goes on with the records not yet taken, and
\* the zone is as process_message left it.
C10_CompletionErrorIgnored ==
    [][\A i \in DOMAIN inv :
          (inv[i].pc = "complete" /\ inv'[i].completion = "ClientError") =>
              /\ inv'[i].pc = "loop"
              /\ inv'[i].error = ""
              /\ inv'[i].done = inv[i].done
              /\ inv'[i].records = inv[i].records
              /\ zone' = zone]_vars

\* C10 happens: the call failed for a record that had upserted the A
\* records, and another record is waiting.
C10_Witness ==
    \E i \in DOMAIN inv :
        /\ inv[i].pc = "loop"
        /\ inv[i].completion = "ClientError"
        /\ inv[i].done < inv[i].records
        /\ inv[i].prev # <<>>
        /\ inv[i].prev[1].ipv4s # {}
        /\ DirectoryValues(zone, "A") = inv[i].prev[1].ipv4s

\* The hostname tag of the group and the number of separators in its value.
HasHostnameTag == \E t \in asgTags : t.Key = HOSTNAME_TAG_NAME
HostnameTagValue == TagGet(asgTags, HOSTNAME_TAG_NAME, <<>>)
Separators(s) == Cardinality({k \in 1 .. Len(s) : s[k] = "@"})
Malformed == HasHostnameTag /\ Separators(HostnameTagValue) # 1

\* The positions at which the next step of process_message is a
\* list_resource_record_sets call, and those it reaches only with a config.
ReadPcs == {"fetch_A", "fetch_AAAA"}
ConfigPcs == {"fetch_A", "fetch_AAAA", "fetch_ips", "change_A", "change_AAAA"}

\* C11: a hostname tag with no separator or with more than one yields no
\* config, and process_message then neither calls
\* list_resource_record_sets nor change_resource_record_sets.
C11_MalformedTag ==
    Malformed =>
        \A i \in DOMAIN inv :
              /\ inv[i].config = <<>>
              /\ inv[i].pc \notin ConfigPcs
              /\ inv[i].error # "NoSuchHostedZone"
              /\ inv[i].calls = <<>>

\* C12: for a group without hostname tag no step of lambda_handler is a
\* list_resource_record_sets call or a change_resource_record_sets call,
\* whatever the messages are, and the zone stays as it is.
C12_EmptyTagSkip ==
    [][~HasHostnameTag =>
          /\ zone' = zone
          /\ \A i \in DOMAIN inv :
                /\ inv[i].pc \notin ConfigPcs
                /\ inv'[i].pc \notin ConfigPcs
                /\ inv'[i].calls = <<>>]_vars

\* C12 happens: process_message has marked the instance of a launch error
\* message, found no hostname tag (other tags or none) and returned.
C12_Witness ==
    \E i \in DOMAIN inv :
        /\ ~HasHostnameTag
        /\ asgTags # {}
        /\ Finished(inv[i], "no_config")
        /\ inv[i].message.LifecycleTransition = LAUNCH_ERROR
        /\ inv[i].message.EC2InstanceId \in tagged
        /\ inv[i].message.EC2InstanceId \in running

HasModeTag == \E t \in asgTags : t.Key = MODE_TAG_NAME
ModeTagValue == TagGet(asgTags, MODE_TAG_NAME, <<>>)
UnknownMode == HasModeTag /\ ModeTagValue \notin MODES_VALID

\* C13: the config process_message works with is None or what
\* from_asg_name makes of the group's tags, and its mode is single or
\* multi; a hostname tag with one separator and no mode tag give a config
\* in Multi mode; a mode tag with another value gives no config, whatever
\* the hostname tag, and no change_resource_record_sets call follows.
C13_ModeResolution ==
    LET config == from_asg_name(AsgName, asgTags)
    IN  /\ config # <<>> => config[1].mode \in {MODE_SINGLE, MODE_MULTI}
        /\ \A i \in DOMAIN inv :
              /\ inv[i].config \in {<<>>, config}
              /\ inv[i].pc \in ConfigPcs => inv[i].config # <<>>
        /\ (HasHostnameTag /\ Separators(HostnameTagValue) = 1 /\ ~HasModeTag) =>
              config # <<>> /\ config[1].mode = MODE_MULTI
        /\ UnknownMode =>
              /\ config = <<>>
              /\ \A i \in DOMAIN inv :
                    inv[i].pc \notin ConfigPcs /\ inv[i].calls = <<>>

\* C13 happens: process_message has returned without config for a
\* launching instance of a group whose hostname tag is well formed and
\* whose mode tag is unknown, and the zone holds records of the hostname.
C13_Witness ==
    \E i \in DOMAIN inv :
        /\ UnknownMode
        /\ Separators(HostnameTagValue) = 1
        /\ Finished(inv[i], "no_config")
        /\ inv[i].message.LifecycleTransition = LAUNCHING
        /\ inv[i].message.EC2InstanceId \in running
        /\ DirectoryValues(zone, "A") # {}

\* C14: a DELETE that Route53 rejects with InvalidChangeBatch, because
\* the record set is no longer the one submitted, does not end
\* process_message, in Single mode and in Multi mode: no invocation
\* fails with that error.
C14_DeleteConflictAbsorbed ==
    \A i \in DOMAIN inv : inv[i].error # "InvalidChangeBatch"

\* The positions at which the next step of process_message reads: the
\* group's tags (describe_tags), the zone, the instances (describe_instances).
LookupPcs == {"from_asg_name", "fetch_A", "fetch_AAAA", "fetch_ips"}

\* C15: for a terminating or launch error message, whenever
\* process_message stands at or after a read of the group's tags, of the
\* zone or of the instances, create_tags has marked the instance of the
\* message; and the step that marks it is taken before any such read.
C15_MarkBeforeRead ==
    \A i \in DOMAIN inv :
        /\ (terminate_ids(inv[i].message) # {} /\ inv[i].pc \in LookupPcs \cup ConfigPcs)
              => terminate_ids(inv[i].message) \subseteq tagged
        /\ inv[i].pc = "set_terminating_tag"
              => /\ terminate_ids(inv[i].message) # {}
                 /\ inv[i].config = <<>>
                 /\ inv[i].ipv4s = {} /\ inv[i].ipv6s = {}
                 /\ inv[i].old_ipv4s = {} /\ inv[i].old_ipv6s = {}

\* C15 happens: every read of a terminating message is done, for a
\* running instance that nobody had marked before this message.
C15_Witness ==
    \E i \in DOMAIN inv :
        /\ inv[i].pc = "change_A"
        /\ inv[i].message.LifecycleTransition = TERMINATING
        /\ inv[i].done = 1
        /\ tagged = {inv[i].message.EC2InstanceId}
        /\ inv[i].message.EC2InstanceId \in running
        /\ inv[i].old_ipv4s # {}

\* C16: change_records makes no change_resource_record_sets call when old
\* and new are equal, one UPSERT with the whole of new when new is not
\* empty and differs from old, one DELETE with old when new is empty and
\* old is not.
C16_PlanChange ==
    \A i \in DOMAIN inv :
        inv[i].pc = "returned" =>
            LET v == inv[i]
                call(action, values) ==
                    [Action |-> action, Type |-> v.record_type, Values |-> values]
            IN  /\ v.old = v.new => v.calls = <<>>
                /\ (v.new # {} /\ v.new # v.old) => v.calls = <<call("UPSERT", v.new)>>
                /\ (v.new = {} /\ v.old # {}) => v.calls = <<call("DELETE", v.old)>>

\* C16 happens: an UPSERT replaced a record set by a new set that neither
\* holds it nor is held by it.
C16_Witness ==
    \E i \in DOMAIN inv :
        /\ inv[i].pc = "returned"
        /\ inv[i].code = "ok"
        /\ inv[i].old \ inv[i].new # {}
        /\ inv[i].new \ inv[i].old # {}
        /\ Len(inv[i].calls) = 1
        /\ DirectoryValues(zone, inv[i].record_type) = inv[i].new

Unrecognized(v) ==
    v.message.LifecycleTransition \in {UNKNOWN_TRANSITION, NO_TRANSITION}

\* C17: for a message whose transition is none of launching, terminating
\* and launch error, the only steps are the classification and the return
\* to lambda_handler: no create_tags, describe_tags,
\* list_resource_record_sets, describe_instances or
\* change_resource_record_sets call, and the zone and the terminating
\* tags stay as they are.
C17_UnrecognizedTransition ==
    [][\A i \in DOMAIN inv :
          (Unrecognized(inv[i]) /\ inv'[i] # inv[i]) =>
              /\ inv[i].pc \in {"process_message", "complete"}
              /\ inv[i].pc = "process_message" => inv'[i].pc = "complete"
              /\ inv'[i].config = <<>>
              /\ inv'[i].calls = <<>>
              /\ zone' = zone
              /\ tagged' = tagged
              /\ visible' = visible]_vars

\* C17 happens: process_message has returned for an unknown transition
\* of a running instance, in a group with a well-formed hostname tag
\* whose zone holds records of the hostname.
C17_Witness ==
    \E i \in DOMAIN inv :
        /\ Finished(inv[i], "unknown")
        /\ inv[i].message.LifecycleTransition = UNKNOWN_TRANSITION
        /\ inv[i].message.EC2InstanceId \in running
        /\ from_asg_name(AsgName, asgTags) # <<>>
        /\ DirectoryValues(zone, "A") # {}
        /\ tagged = {}

\* The addresses of one family EC2 gave an instance.
FamilyOf(x, record_type) == IF record_type = "A" THEN Ipv4Of(x) ELSE Ipv6Of(x)

\* C18: in Single mode every call made for a launching message is an
\* UPSERT; every call made for a terminating or launch error message is a
\* DELETE of exactly the addresses of the message's instance in that
\* family, and there is none for a family in which it has no address.
C18_SingleModeKinds ==
    [][\A i \in DOMAIN inv :
          /\ SingleLaunching(inv[i]) =>
                \A k \in 1 .. Len(inv'[i].calls) : inv'[i].calls[k].Action = "UPSERT"
          /\ SingleTerminating(inv[i]) =>
                /\ \A k \in 1 .. Len(inv'[i].calls) :
                      /\ inv'[i].calls[k].Action = "DELETE"
                      /\ inv'[i].calls[k].Values =
                            FamilyOf(inv[i].message.EC2InstanceId, inv'[i].calls[k].Type)
                /\ \A t \in {"A", "AAAA"} :
                      FamilyOf(inv[i].message.EC2InstanceId, t) = {}
                          => CallsOf(inv'[i], t) = {}]_vars

\* C18 happens: in Single mode the A records of a terminating instance
\* were deleted while the hostname held other AAAA records, which the
\* instance without IPv6 address leaves alone.
C18_Witness ==
    \E i \in DOMAIN inv :
        /\ SingleTerminating(inv[i])
        /\ inv[i].pc = "change_AAAA"
        /\ Len(inv[i].calls) = 1
        /\ inv[i].calls[1].Action = "DELETE"
        /\ inv[i].caught = 0
        /\ DirectoryValues(zone, "A") = {}
        /\ inv[i].ipv6s = {}
        /\ DirectoryValues(zone, "AAAA") # {}

\* C19: in Multi mode the sets fetch_instance_ips returns for a
\* terminating or launch error message hold no address of the message's
\* instance, whether or not describe_instances shows the tag that
\* create_tags has just written.
C19_SameInvocationExclusion ==
    [][\A i \in DOMAIN inv :
          ( /\ IsMulti(inv[i])
            /\ terminate_ids(inv[i].message) # {}
            /\ inv[i].pc = "fetch_ips"
            /\ inv'[i].pc = "change_A" ) =>
              \A x \in terminate_ids(inv[i].message) :
                  /\ Ipv4Of(x) \cap inv'[i].ipv4s = {}
                  /\ Ipv6Of(x) \cap inv'[i].ipv6s = {}]_vars

\* C19 happens: the members were fetched for a terminating message of a
\* running instance with an IPv4 address whose tag did not show yet, and
\* another instance is a member.
C19_Witness ==
    \E i \in DOMAIN inv :
        /\ IsMulti(inv[i])
        /\ inv[i].pc = "change_A"
        /\ inv[i].message.LifecycleTransition = TERMINATING
        /\ inv[i].message.EC2InstanceId \in (running \cap tagged) \ visible
        /\ Ipv4Of(inv[i].message.EC2InstanceId) # {}
        /\ inv[i].lagged
        /\ inv[i].ipv4s # {}

\* C20: every change_resource_record_sets call made for a record carries
\* at least one value, and there is at most one call for the A records
\* and at most one for the AAAA records.
C20_NonEmptyOncePerFamily ==
    \A i \in DOMAIN inv :
        /\ \A k \in 1 .. Len(inv[i].calls) : inv[i].calls[k].Values # {}
        /\ \A t \in {"A", "AAAA"} : Cardinality(CallsOf(inv[i], t)) <= 1
        /\ Len(inv[i].calls) =
              Cardinality(CallsOf(inv[i], "A")) + Cardinality(CallsOf(inv[i], "AAAA"))

\* C20 happens: the first record of a batch, in Multi mode, made one call
\* for each family, both UPSERTs.
C20_Witness ==
    \E i \in DOMAIN inv :
        /\ Finished(inv[i], "multi")
        /\ Len(inv[i].calls) = 2
        /\ inv[i].calls[1].Type = "A" /\ inv[i].calls[1].Action = "UPSERT"
        /\ inv[i].calls[2].Type = "AAAA" /\ inv[i].calls[2].Action = "UPSERT"
        /\ inv[i].done = 1

====
